---------------------------- MODULE Spec2Model ----------------------------
(***************************************************************************)
(* Model of nornir.core: the Nornir session object, the Data object it     *)
(* shares with the sessions filtered from it, and the driver Nornir.run    *)
(* that selects hosts, hands them to the TaskScheduler and books failures. *)
(*                                                                         *)
(* Objects live in three heaps indexed by identity (a position in a        *)
(* sequence): nornirs (Nornir objects), datas (Data objects), inventories  *)
(* (Inventory objects).  A reference is an index, 0 is None.  The Host     *)
(* objects are shared by an inventory and the inventories filtered from    *)
(* it; connections holds the connections table of each.                    *)
(***************************************************************************)
EXTENDS Integers, Sequences, FiniteSets, TLC

VARIABLES
    nornirs,      \* Nornir objects: [data, inventory, config]
    datas,        \* Data objects: [failed_hosts, dry_run]
    inventories,  \* Inventory objects: [hosts, nornir]
    origin,       \* ghost: origin[b] = the session b was filtered from, 0 for the first
    call,         \* the frame of the Nornir.run call in progress
    ret,          \* what the most recent completed call handed to its caller
    connections,  \* connections[h]: the connections table of Host h
    scope         \* the `with` block of a session: [pc, self, exc_type]

vars == <<nornirs, datas, inventories, origin, call, ret, connections, scope>>

-----------------------------------------------------------------------------
(* Bounds *)

MaxSessions == 2      \* Nornir objects alive at once under Spec
MaxFiltered == 3      \* Nornir objects alive at once under SpecFilter
MaxConstructed == 3   \* Nornir objects alive at once under SpecData
MaxScoped == 2        \* Nornir objects alive at once under SpecConn

-----------------------------------------------------------------------------
(* The inventory the sessions are built on: three hosts in this order,    *)
(* each with a group.                                                      *)

HostNames == <<"A", "B", "C">>

Hosts == {HostNames[i] : i \in 1..Len(HostNames)}

GroupOf(name) == IF name = "A" THEN "g1" ELSE "g2"

None == "None"       \* the name Python's None is given where names are expected

NoRef == 0            \* a reference that is None

\* filter criteria: keyword arguments name=..., group=... (None: not given)
Criteria ==
    { [name |-> "B",  group |-> "g2"],
      [name |-> None, group |-> "g2"] }

\* Config objects: the two settings Nornir.run reads
Configs == [num_workers : {1, 2}, raise_on_error : BOOLEAN]

\* work functions: the hosts a task raises on and the exception class it raises
\* and the connections it asks its host for, in the order it asks
Tasks ==
    { [name |-> "ok",      raises |-> {},         exc |-> None,        opens |-> <<>>],
      [name |-> "fail_B",  raises |-> {"B"},      exc |-> "KeyError",  opens |-> <<>>],
      [name |-> "fail_AC", raises |-> {"A", "C"}, exc |-> "TypeError", opens |-> <<>>] }

NoTask == [name |-> None, raises |-> {}, exc |-> None, opens |-> <<>>]

\* work functions that use connections: napalm_connection opens the napalm
\* connection; napalm_get asks for it and raises on B; netmiko_send_command
\* asks for the netmiko connection
ConnTasks ==
    { [name |-> "napalm_connection",    raises |-> {},    exc |-> None,
       opens |-> <<"napalm">>],
      [name |-> "napalm_get",           raises |-> {"B"}, exc |-> "KeyError",
       opens |-> <<"napalm">>],
      [name |-> "netmiko_send_command", raises |-> {},    exc |-> None,
       opens |-> <<"netmiko">>] }

\* the task defined inside Nornir.close_connections: task.host.close_connections()
close_connections_task ==
    [name |-> "close_connections_task", raises |-> {}, exc |-> None, opens |-> <<>>]

\* connections.available_connections: connection type -> plugin class
available_connections == [napalm |-> "Napalm", netmiko |-> "Netmiko"]

\* num_workers argument of run: an int, or NoWorkers for None
NoWorkers == -1

NumWorkersArgs == {NoWorkers, 0, 1, 2}

\* raise_on_error argument of run: "True", "False" or None
RaiseOnErrorArgs == {None, "True", "False"}

-----------------------------------------------------------------------------
(* Sequence helpers *)

Range(s) == {s[i] : i \in 1..Len(s)}

RECURSIVE SelectNames(_, _)
\* the names of seq s that are in set S, in the order of s
SelectNames(s, S) ==
    IF s = <<>> THEN <<>>
    ELSE IF Head(s) \in S THEN <<Head(s)>> \o SelectNames(Tail(s), S)
         ELSE SelectNames(Tail(s), S)

-----------------------------------------------------------------------------
(* Data *)

\* Data.__init__
NewData ==
    [failed_hosts |-> {}, dry_run |-> FALSE, available_connections |-> available_connections]

\* mutant: recovering one host forgets every failed host
Data_recover_host_all(d, host) == [d EXCEPT !.failed_hosts = {}]

\* Data.recover_host: self.failed_hosts.discard(host)
Data_recover_host(d, host) == [d EXCEPT !.failed_hosts = @ \ {host}]

\* Data.reset_failed_hosts: self.failed_hosts = set()
Data_reset_failed_hosts(d) == [d EXCEPT !.failed_hosts = {}]

-----------------------------------------------------------------------------
(* Inventory (nornir.core.inventory) *)

\* whether host `name` matches every given criterion (logical AND)
Matches(name, crit) ==
    /\ crit.name # None => name = crit.name
    /\ crit.group # None => GroupOf(name) = crit.group

\* Inventory.filter: a new Inventory holding the matching hosts in the
\* order of the one filtered; the object filtered is left as it is
Inventory_filter(inv, crit) ==
    [hosts |-> SelectNames(inv.hosts, {n \in Range(inv.hosts) : Matches(n, crit)}),
     nornir |-> NoRef]

-----------------------------------------------------------------------------
(* Nornir: construction and filter *)

Heap == [nornirs |-> nornirs, datas |-> datas, inventories |-> inventories]

\* mutant: dry_run is stored only in a Data made by this constructor; a Data
\* handed in keeps the flag it has
Nornir_init_keep_dry_run(h, inventory, dry_run, config, data) ==
    LET self   == Len(h.nornirs) + 1
        d      == IF data # NoRef THEN data ELSE Len(h.datas) + 1
        datas1 == IF data # NoRef THEN h.datas ELSE Append(h.datas, NewData)
    IN  [nornirs     |-> Append(h.nornirs,
                                [data |-> d, inventory |-> inventory, config |-> config]),
         inventories |-> [h.inventories EXCEPT ![inventory].nornir = self],
         datas       |-> IF data # NoRef THEN datas1
                         ELSE [datas1 EXCEPT ![d].dry_run = dry_run]]

\* Nornir.__init__(inventory, dry_run, config, data): the heap with the new
\* object appended to nornirs.  data = NoRef is data=None.
Nornir_init(h, inventory, dry_run, config, data) ==
    LET self   == Len(h.nornirs) + 1
        d      == IF data # NoRef THEN data ELSE Len(h.datas) + 1      \* data or Data()
        datas1 == IF data # NoRef THEN h.datas ELSE Append(h.datas, NewData)
    IN  [nornirs     |-> Append(h.nornirs,
                                [data |-> d, inventory |-> inventory, config |-> config]),
         inventories |-> [h.inventories EXCEPT ![inventory].nornir = self],
         datas       |-> [datas1 EXCEPT ![d].dry_run = dry_run]]

\* Nornir.dry_run (property)
Nornir_dry_run(h, self) == h.datas[h.nornirs[self].data].dry_run

\* mutant: the new Nornir is built without data=, so it gets a Data of its own
Nornir_filter_fresh_data(h, self, crit) ==
    LET me     == h.nornirs[self]
        h1     == Nornir_init(h, me.inventory, Nornir_dry_run(h, self), me.config, NoRef)
        b      == Len(h1.nornirs)
        newinv == Len(h1.inventories) + 1
    IN  [h1 EXCEPT !.inventories =
                       Append(@, Inventory_filter(h1.inventories[h1.nornirs[self].inventory],
                                                  crit)),
                   !.nornirs[b].inventory = newinv]

\* mutant: the hosts of the Inventory object shared with the parent are
\* narrowed in place
Nornir_filter_in_place(h, self, crit) ==
    LET me == h.nornirs[self]
        h1 == Nornir_init(h, me.inventory, Nornir_dry_run(h, self), me.config, me.data)
    IN  [h1 EXCEPT !.inventories[me.inventory].hosts =
                       Inventory_filter(h1.inventories[me.inventory], crit).hosts]

\* Nornir.filter: b = Nornir(dry_run=self.dry_run, **self.__dict__);
\* b.inventory = self.inventory.filter(...)
Nornir_filter(h, self, crit) ==
    LET me     == h.nornirs[self]
        h1     == Nornir_init(h, me.inventory, Nornir_dry_run(h, self), me.config, me.data)
        b      == Len(h1.nornirs)
        newinv == Len(h1.inventories) + 1
    IN  [h1 EXCEPT !.inventories =
                       Append(@, Inventory_filter(h1.inventories[h1.nornirs[self].inventory],
                                                  crit)),
                   !.nornirs[b].inventory = newinv]

\* the host names of a session's inventory, in iteration order
HostsOf(h, self) == h.inventories[h.nornirs[self].inventory].hosts

\* the failed set a session sees
FailedOf(h, self) == h.datas[h.nornirs[self].data].failed_hosts

\* Nornir.get_connection_type: self.data.available_connections[connection]
Nornir_get_connection_type(h, self, connection) ==
    h.datas[h.nornirs[self].data].available_connections[connection]

-----------------------------------------------------------------------------
(* Host (nornir.core.inventory): the connections table *)

\* a connections table is a dict from connection name to the connection
\* opened under that name: a set of entries [name, plugin, handle] with
\* distinct names; handle is the identity of the connection object
NoConnections == {}

ConnKeys(table) == {c.name : c \in table}

ConnHandles(table) == {c.handle : c \in table}

\* self.connections[name]
Host_connection(table, name) == CHOOSE c \in table : c.name = name

\* the identity of a new object: one no object of the table has
NewHandle(table) ==
    CHOOSE k \in 1..(Cardinality(table) + 1) :
       /\ k \notin ConnHandles(table)
       /\ \A j \in 1..(k - 1) : j \in ConnHandles(table)

\* mutant: the connection is opened at every request, the one in the table
\* being replaced
Host_get_connection_reopen(h, nornir, table, name) ==
    LET c == [name |-> name, plugin |-> Nornir_get_connection_type(h, nornir, name),
              handle |-> NewHandle(table)]
    IN  [table |-> {x \in table : x.name # name} \cup {c}, handle |-> c.handle,
         opened |-> TRUE]

\* Host.get_connection(name): the connection in the table under that name;
\* if there is none, one is opened with the plugin the session has for the
\* name and put in the table.  opened: whether this request opened one.
Host_get_connection(h, nornir, table, name) ==
    IF name \in ConnKeys(table)
    THEN [table |-> table, handle |-> Host_connection(table, name).handle, opened |-> FALSE]
    ELSE LET c == [name |-> name, plugin |-> Nornir_get_connection_type(h, nornir, name),
                   handle |-> NewHandle(table)]
         IN  [table |-> table \cup {c}, handle |-> c.handle, opened |-> TRUE]

\* Host.close_connections: every connection of the table is closed and taken
\* out of it; with an empty table nothing is done
Host_close_connections(table) == NoConnections

RECURSIVE Task_connections(_, _, _, _, _)
\* the requests a work function makes of its host, one after the other: the
\* table they leave and what each request got
Task_connections(h, nornir, names, table, got) ==
    IF names = <<>> THEN [table |-> table, got |-> got]
    ELSE LET g == Host_get_connection(h, nornir, table, Head(names))
         IN  Task_connections(h, nornir, Tail(names), g.table,
                              Append(got, [name |-> Head(names), handle |-> g.handle,
                                           opened |-> g.opened]))

\* what running `task` on a host does to the host's connections table
Task_run(h, nornir, task, table) ==
    IF task = close_connections_task
    THEN [table |-> Host_close_connections(table), got |-> <<>>]
    ELSE Task_connections(h, nornir, task.opens, table, <<>>)

-----------------------------------------------------------------------------
(* Result and AggregatedResult (nornir.core.task) *)

NoException == [class |-> "NoneType"]

\* the Result of a work function that returned
ResultOk(host) ==
    [host |-> host, result |-> "value", exception |-> NoException, failed |-> FALSE]

\* the Result of a work function that raised: the exception object is kept,
\* the result field holds the traceback text
ResultFailed(host, exc) ==
    [host |-> host, result |-> "traceback", exception |-> [class |-> exc], failed |-> TRUE]

NoResult == [host |-> None, result |-> None, exception |-> NoException, failed |-> FALSE]

\* Task.start: run the work function against one host and wrap the outcome
Task_start(task, host) ==
    IF host \in task.raises THEN ResultFailed(host, task.exc) ELSE ResultOk(host)

\* AggregatedResult is a dict from host name to Result, in insertion order:
\* a sequence of Results with distinct hosts.

RECURSIVE AR_set(_, _)
\* ar[r.host] = r: a key already present keeps its place
AR_set(ar, r) ==
    IF ar = <<>> THEN <<r>>
    ELSE IF Head(ar).host = r.host THEN <<r>> \o Tail(ar)
         ELSE <<Head(ar)>> \o AR_set(Tail(ar), r)

AR_keys(ar) == [i \in 1..Len(ar) |-> ar[i].host]

\* AggregatedResult.failed
AR_failed(ar) == \E i \in 1..Len(ar) : ar[i].failed

RECURSIVE AR_failed_hosts(_)
\* AggregatedResult.failed_hosts: the entries that failed
AR_failed_hosts(ar) ==
    IF ar = <<>> THEN <<>>
    ELSE IF Head(ar).failed THEN <<Head(ar)>> \o AR_failed_hosts(Tail(ar))
         ELSE AR_failed_hosts(Tail(ar))

\* AggregatedResult.raise_on_error: raises NornirExecutionError(self) if failed
AR_raise_on_error(ar) == IF AR_failed(ar) THEN "raised" ELSE "returned"

-----------------------------------------------------------------------------
(* TaskScheduler (nornir.core.scheduler) *)

Terminal == {"succeeded", "failed"}

\* TaskScheduler.__init__: one execution unit per host handed over
Scheduler_units(run_on) ==
    [i \in 1..Len(run_on) |->
        [host |-> run_on[i], state |-> "pending", result |-> NoResult, got |-> <<>>]]

Pending(units) == {i \in 1..Len(units) : units[i].state = "pending"}

Running(units) == {i \in 1..Len(units) : units[i].state = "running"}

AllDone(units) == \A i \in 1..Len(units) : units[i].state \in Terminal

Min(a, b) == IF a < b THEN a ELSE b

\* how many units may run at once: one in run_serial, the pool's size in
\* run_parallel
Slots(mode, num_workers, units) ==
    IF mode = "serial" THEN 1 ELSE Min(num_workers, Len(units))

\* mutant: once a unit has failed no further unit is started
CanStart_abort(mode, num_workers, units, i) ==
    /\ i \in Pending(units)
    /\ \A j \in Pending(units) : i <= j
    /\ Cardinality(Running(units)) < Slots(mode, num_workers, units)
    /\ \A j \in 1..Len(units) : units[j].state # "failed"

\* unit i may start: it is the next in submission order and a slot is free
CanStart(mode, num_workers, units, i) ==
    /\ i \in Pending(units)
    /\ \A j \in Pending(units) : i <= j
    /\ Cardinality(Running(units)) < Slots(mode, num_workers, units)

RECURSIVE Collect(_, _)
\* the AggregatedResult assembled from the units in submission order
Collect(units, ar) ==
    IF units = <<>> THEN ar
    ELSE Collect(Tail(units), AR_set(ar, Head(units).result))

RECURSIVE Fold(_, _, _)
\* run_serial: the work function on each host in turn, each Result stored as
\* it is made
Fold(task, hosts, ar) ==
    IF hosts = <<>> THEN ar
    ELSE Fold(task, Tail(hosts), AR_set(ar, Task_start(task, Head(hosts))))

run_serial(task, hosts) == Fold(task, hosts, <<>>)

\* mutant: the Results are matched to the hosts by completion order, the i-th
\* host getting the i-th Result to arrive
Scheduler_result_streaming(units, done) ==
    Collect([i \in 1..Len(units) |->
                [units[i] EXCEPT !.result =
                    [units[done[i]].result EXCEPT !.host = units[i].host]]], <<>>)

\* the AggregatedResult the scheduler returns once every unit is done: the
\* Results in submission order, whatever the order `done` they arrived in
Scheduler_result(units, done) == Collect(units, <<>>)

-----------------------------------------------------------------------------
(* Nornir.run *)

\* num_workers = num_workers or self.config.num_workers
EffectiveWorkers(num_workers, config) ==
    IF num_workers # NoWorkers /\ num_workers # 0 THEN num_workers
    ELSE config.num_workers

\* mutant: the on_failed loop appends every host (its membership test is lost)
RunOn_no_test(hosts, failed_hosts, on_good, on_failed) ==
    (IF on_good THEN SelectNames(hosts, Range(hosts) \ failed_hosts) ELSE <<>>)
    \o (IF on_failed THEN hosts ELSE <<>>)

\* mutant: the on_failed loop runs before the on_good loop
RunOn_failed_first(hosts, failed_hosts, on_good, on_failed) ==
    (IF on_failed THEN SelectNames(hosts, Range(hosts) \cap failed_hosts) ELSE <<>>)
    \o (IF on_good THEN SelectNames(hosts, Range(hosts) \ failed_hosts) ELSE <<>>)

\* mutant: the on_good loop appends every host (its membership test is lost)
RunOn_good_all(hosts, failed_hosts, on_good, on_failed) ==
    (IF on_good THEN hosts ELSE <<>>)
    \o (IF on_failed /\ ~on_good
        THEN SelectNames(hosts, Range(hosts) \cap failed_hosts) ELSE <<>>)

\* run_on: the hosts not in failed_hosts if on_good, then the hosts in
\* failed_hosts if on_failed, each loop in the inventory's order
RunOn(hosts, failed_hosts, on_good, on_failed) ==
    (IF on_good THEN SelectNames(hosts, Range(hosts) \ failed_hosts) ELSE <<>>)
    \o (IF on_failed THEN SelectNames(hosts, Range(hosts) \cap failed_hosts) ELSE <<>>)

\* if num_workers == 1: run_serial() else: run_parallel(num_workers)
Mode(num_workers) == IF num_workers = 1 THEN "serial" ELSE "parallel"

\* mutant: raise_on_error or self.config.raise_on_error
EffectiveRaise_or(raise_on_error, config) ==
    raise_on_error = "True" \/ config.raise_on_error

\* raise_on_error if raise_on_error is not None else self.config.raise_on_error
EffectiveRaise(raise_on_error, config) ==
    IF raise_on_error # None THEN raise_on_error = "True" ELSE config.raise_on_error

\* mutant: self.data.failed_hosts = set(result.failed_hosts.keys())
UpdateFailed_replace(failed_hosts, result) ==
    Range(AR_keys(AR_failed_hosts(result)))

\* mutant: self.data.failed_hosts.update(result.keys())
UpdateFailed_all_keys(failed_hosts, result) ==
    failed_hosts \cup Range(AR_keys(result))

\* self.data.failed_hosts.update(result.failed_hosts.keys())
UpdateFailed(failed_hosts, result) ==
    failed_hosts \cup Range(AR_keys(AR_failed_hosts(result)))

Idle ==
    [pc |-> "idle", self |-> NoRef, task |-> NoTask, num_workers |-> 0,
     raise_on_error |-> None, on_good |-> FALSE, on_failed |-> FALSE,
     run_on |-> <<>>, mode |-> None, units |-> <<>>, done |-> <<>>]

\* what a call hands to its caller: the value returned (a session for filter,
\* an AggregatedResult for run) or the NornirExecutionError raised, which
\* carries the AggregatedResult
NoRet == [op |-> None, self |-> NoRef, outcome |-> None, result |-> <<>>, value |-> NoRef]

\* exc_type argument of __exit__: None, or the class of the exception that
\* left the block
ExcTypes == {None, "Exception"}

\* no `with` block is open
NoScope == [pc |-> "out", self |-> NoRef, exc_type |-> None]

\* the body of Nornir.run up to the point where the scheduler has the units
Nornir_run(self, task, num_workers, raise_on_error, on_good, on_failed) ==
    /\ call.pc = "idle"
    /\ LET eff    == EffectiveWorkers(num_workers, nornirs[self].config)
           run_on == RunOn(HostsOf(Heap, self), FailedOf(Heap, self), on_good, on_failed)
       IN  call' = [pc |-> "exec", self |-> self, task |-> task, num_workers |-> eff,
                    raise_on_error |-> raise_on_error,
                    on_good |-> on_good, on_failed |-> on_failed,
                    run_on |-> run_on, mode |-> Mode(eff),
                    units |-> Scheduler_units(run_on), done |-> <<>>]
    /\ ret' = NoRet
    /\ UNCHANGED <<nornirs, datas, inventories, origin, connections>>

\* a call of Nornir.run
run(self, task, num_workers, raise_on_error, on_good, on_failed) ==
    /\ Nornir_run(self, task, num_workers, raise_on_error, on_good, on_failed)
    /\ UNCHANGED scope

\* Nornir.close_connections(on_good, on_failed):
\* self.run(task=close_connections_task, on_good=on_good, on_failed=on_failed)
close_connections(self, on_good, on_failed) ==
    /\ Nornir_run(self, close_connections_task, NoWorkers, None, on_good, on_failed)
    /\ UNCHANGED scope

\* Nornir.__enter__: the `with` block of session self is entered
Nornir_enter(self) ==
    /\ call.pc = "idle"
    /\ scope.pc = "out"
    /\ scope' = [pc |-> "in", self |-> self, exc_type |-> None]
    /\ ret' = [NoRet EXCEPT !.op = "__enter__", !.self = self, !.outcome = "returned",
                            !.value = self]
    /\ UNCHANGED <<nornirs, datas, inventories, origin, call, connections>>

\* mutant: __exit__ calls close_connections() with its default flags
ExitFlags_default == [on_good |-> TRUE, on_failed |-> FALSE]

\* the flags __exit__ calls close_connections with
ExitFlags == [on_good |-> TRUE, on_failed |-> TRUE]

\* Nornir.__exit__(exc_type, exc_val, exc_tb): the block is left, at its end
\* (exc_type None) or by an exception raised in it:
\* self.close_connections(on_good=True, on_failed=True)
Nornir_exit(self, exc_type) ==
    /\ scope.pc = "in"
    /\ scope.self = self
    /\ Nornir_run(self, close_connections_task, NoWorkers, None,
                  ExitFlags.on_good, ExitFlags.on_failed)
    /\ scope' = [pc |-> "exit", self |-> self, exc_type |-> exc_type]

\* the scheduler starts the work function on the next host
unit_start(i) ==
    /\ call.pc = "exec"
    /\ CanStart(call.mode, call.num_workers, call.units, i)
    /\ call' = [call EXCEPT !.units[i].state = "running"]
    /\ UNCHANGED <<nornirs, datas, inventories, origin, ret, connections, scope>>

\* a running work function returns or raises; its Result is kept
unit_finish(i) ==
    /\ call.pc = "exec"
    /\ i \in Running(call.units)
    /\ LET host == call.units[i].host
           r    == Task_start(call.task, host)
           c    == Task_run(Heap, call.self, call.task, connections[host])
       IN  /\ call' = [call EXCEPT !.units[i].state =
                                       IF r.failed THEN "failed" ELSE "succeeded",
                                   !.units[i].result = r,
                                   !.units[i].got = c.got,
                                   !.done = Append(@, i)]
           /\ connections' = [connections EXCEPT ![host] = c.table]
    /\ UNCHANGED <<nornirs, datas, inventories, origin, ret, scope>>

\* mutant: the failures are booked from the Results at hand without waiting
\* for the units still pending or running
run_return_unjoined ==
    /\ call.pc = "exec"
    /\ LET self    == call.self
           d       == nornirs[self].data
           result  == Scheduler_result(call.units, call.done)
           raising == EffectiveRaise(call.raise_on_error, nornirs[self].config)
       IN  /\ datas' = IF raising THEN datas
                       ELSE [datas EXCEPT ![d].failed_hosts = UpdateFailed(@, result)]
           /\ ret' = [op |-> "run", self |-> self,
                      outcome |-> IF raising THEN AR_raise_on_error(result) ELSE "returned",
                      result |-> result, value |-> NoRef]
    /\ call' = Idle
    /\ scope' = IF scope.pc = "exit" THEN NoScope ELSE scope
    /\ UNCHANGED <<nornirs, inventories, origin, connections>>

\* mutant: the failures are booked first, the error is raised after
run_return_books_first ==
    /\ call.pc = "exec"
    /\ AllDone(call.units)
    /\ LET self    == call.self
           d       == nornirs[self].data
           result  == Scheduler_result(call.units, call.done)
           raising == EffectiveRaise(call.raise_on_error, nornirs[self].config)
       IN  /\ datas' = [datas EXCEPT ![d].failed_hosts = UpdateFailed(@, result)]
           /\ ret' = [op |-> "run", self |-> self,
                      outcome |-> IF raising THEN AR_raise_on_error(result) ELSE "returned",
                      result |-> result, value |-> NoRef]
    /\ call' = Idle
    /\ scope' = IF scope.pc = "exit" THEN NoScope ELSE scope
    /\ UNCHANGED <<nornirs, inventories, origin, connections>>

\* Nornir.run, from the scheduler's return: raise or book the failures
run_return ==
    /\ call.pc = "exec"
    /\ AllDone(call.units)
    /\ LET self    == call.self
           d       == nornirs[self].data
           result  == Scheduler_result(call.units, call.done)
           raising == EffectiveRaise(call.raise_on_error, nornirs[self].config)
       IN  /\ datas' = IF raising THEN datas
                       ELSE [datas EXCEPT ![d].failed_hosts = UpdateFailed(@, result)]
           /\ ret' = [op |-> "run", self |-> self,
                      outcome |-> IF raising THEN AR_raise_on_error(result) ELSE "returned",
                      result |-> result, value |-> NoRef]
    /\ call' = Idle
    /\ scope' = IF scope.pc = "exit" THEN NoScope ELSE scope
    /\ UNCHANGED <<nornirs, inventories, origin, connections>>

-----------------------------------------------------------------------------
(* The other calls *)

filter(self, crit) ==
    /\ call.pc = "idle"
    /\ LET h == Nornir_filter(Heap, self, crit)
       IN  /\ nornirs' = h.nornirs
           /\ datas' = h.datas
           /\ inventories' = h.inventories
           /\ origin' = Append(origin, self)
           /\ ret' = [NoRet EXCEPT !.op = "filter", !.self = self,
                                   !.outcome = "returned", !.value = Len(h.nornirs)]
    /\ UNCHANGED <<call, connections, scope>>

\* Nornir(inventory, dry_run, config=..., data=data) with the Inventory and
\* the Config of session src; data is a Data object at hand or None
Nornir(src, dry_run, data) ==
    /\ call.pc = "idle"
    /\ LET h == Nornir_init(Heap, nornirs[src].inventory, dry_run, nornirs[src].config, data)
       IN  /\ nornirs' = h.nornirs
           /\ datas' = h.datas
           /\ inventories' = h.inventories
           /\ origin' = Append(origin, NoRef)
           /\ ret' = [NoRet EXCEPT !.op = "Nornir", !.outcome = "returned",
                                   !.value = Len(h.nornirs)]
    /\ UNCHANGED <<call, connections, scope>>

\* self.data.recover_host(host)
recover_host(self, host) ==
    /\ call.pc = "idle"
    /\ datas' = [datas EXCEPT ![nornirs[self].data] = Data_recover_host(@, host)]
    /\ ret' = [NoRet EXCEPT !.op = "recover_host", !.self = self, !.outcome = "returned"]
    /\ UNCHANGED <<nornirs, inventories, origin, call, connections, scope>>

\* self.data.reset_failed_hosts()
reset_failed_hosts(self) ==
    /\ call.pc = "idle"
    /\ datas' = [datas EXCEPT ![nornirs[self].data] = Data_reset_failed_hosts(@)]
    /\ ret' = [NoRet EXCEPT !.op = "reset_failed_hosts", !.self = self,
                            !.outcome = "returned"]
    /\ UNCHANGED <<nornirs, inventories, origin, call, connections, scope>>

-----------------------------------------------------------------------------
(* The state machine *)

\* InitNornir: one Nornir on the full inventory with a Data of its own
Init ==
    /\ \E config \in Configs :
         LET h == Nornir_init([nornirs |-> <<>>, datas |-> <<>>,
                               inventories |-> <<[hosts |-> HostNames, nornir |-> NoRef]>>],
                              1, FALSE, config, NoRef)
         IN  /\ nornirs = h.nornirs
             /\ datas = h.datas
             /\ inventories = h.inventories
    /\ origin = <<NoRef>>
    /\ call = Idle
    /\ ret = NoRet
    /\ connections = [h \in Hosts |-> NoConnections]
    /\ scope = NoScope

Sessions == 1..Len(nornirs)

Next ==
    \/ \E self \in Sessions, task \in Tasks, num_workers \in NumWorkersArgs,
          raise_on_error \in RaiseOnErrorArgs, on_good \in BOOLEAN, on_failed \in BOOLEAN :
          run(self, task, num_workers, raise_on_error, on_good, on_failed)
    \/ \E i \in 1..Len(call.units) : unit_start(i)
    \/ \E i \in 1..Len(call.units) : unit_finish(i)
    \/ run_return
    \/ \E self \in Sessions, crit \in Criteria :
          Len(nornirs) < MaxSessions /\ filter(self, crit)
    \/ \E self \in Sessions, host \in Hosts : recover_host(self, host)
    \/ \E self \in Sessions : reset_failed_hosts(self)

Spec == Init /\ [][Next]_vars

\* Sessions filtered to a greater depth, every run with its default arguments
NextFilter ==
    \/ \E self \in Sessions, crit \in Criteria :
          Len(nornirs) < MaxFiltered /\ filter(self, crit)
    \/ \E self \in Sessions, task \in Tasks : run(self, task, NoWorkers, None, TRUE, FALSE)
    \/ \E i \in 1..Len(call.units) : unit_start(i)
    \/ \E i \in 1..Len(call.units) : unit_finish(i)
    \/ run_return
    \/ \E self \in Sessions, host \in Hosts : recover_host(self, host)
    \/ \E self \in Sessions : reset_failed_hosts(self)

SpecFilter == Init /\ [][NextFilter]_vars

\* Sessions constructed on a Data object at hand or on one of their own, and
\* sessions filtered from them; the runs are runs of one task, which fails on
\* B, with the default arguments
NextData ==
    \/ \E src \in Sessions, dry_run \in BOOLEAN, data \in {NoRef} \cup DOMAIN datas :
          Len(nornirs) < MaxConstructed /\ Nornir(src, dry_run, data)
    \/ \E self \in Sessions, crit \in Criteria :
          Len(nornirs) < MaxConstructed /\ filter(self, crit)
    \/ \E self \in Sessions, task \in {t \in Tasks : t.name = "fail_B"} :
          run(self, task, NoWorkers, None, TRUE, FALSE)
    \/ \E i \in 1..Len(call.units) : unit_start(i)
    \/ \E i \in 1..Len(call.units) : unit_finish(i)
    \/ run_return

SpecData == Init /\ [][NextData]_vars

\* Sessions whose work functions use connections: runs with the default
\* arguments, close_connections with every choice of flags, `with` blocks,
\* sessions filtered by group
NextConn ==
    \/ \E self \in Sessions, task \in ConnTasks :
          run(self, task, NoWorkers, None, TRUE, FALSE)
    \/ \E self \in Sessions, on_good \in BOOLEAN, on_failed \in BOOLEAN :
          close_connections(self, on_good, on_failed)
    \/ \E self \in Sessions : Nornir_enter(self)
    \/ \E self \in Sessions, exc_type \in ExcTypes : Nornir_exit(self, exc_type)
    \/ \E i \in 1..Len(call.units) : unit_start(i)
    \/ \E i \in 1..Len(call.units) : unit_finish(i)
    \/ run_return
    \/ \E self \in Sessions, crit \in {c \in Criteria : c.name = None} :
          Len(nornirs) < MaxScoped /\ filter(self, crit)

SpecConn == Init /\ [][NextConn]_vars

\* SpecFilter with the scheduler's progress: a work function that can be
\* started is started, and one that is running returns or raises
SpecFair ==
    /\ Init
    /\ [][NextFilter]_vars
    /\ WF_vars(\E i \in 1..Len(call.units) : unit_start(i))
    /\ WF_vars(\E i \in 1..Len(call.units) : unit_finish(i))

-----------------------------------------------------------------------------
(* Vocabulary of the properties *)

\* the step that enters Nornir.run, and the step that leaves it
IsCall == call.pc = "idle" /\ call'.pc = "exec"

IsReturn == call.pc = "exec" /\ call'.pc = "idle"

\* any step taken inside Nornir.run
RunStep == call.pc = "exec" \/ call'.pc = "exec"

\* raise-on-error in effect for the run in progress: the argument if one was
\* given, the configured default otherwise
Raising ==
    \/ call.raise_on_error = "True"
    \/ call.raise_on_error = None /\ nornirs[call.self].config.raise_on_error

\* the scheduled hosts whose work function raises in the run in progress
Raised == {h \in Range(call.run_on) : h \in call.task.raises}

\* the failed set and the hosts of the session running
CallFailed == datas[nornirs[call.self].data].failed_hosts

CallHosts == inventories[nornirs[call.self].inventory].hosts

Distinct(s) == \A i, j \in 1..Len(s) : s[i] = s[j] => i = j

Good(hosts, failed) == SelectNames(hosts, Range(hosts) \ failed)

Bad(hosts, failed) == SelectNames(hosts, Range(hosts) \cap failed)

-----------------------------------------------------------------------------
(* C1 *)

\* C1: a step of run never takes a name out of a failed set; a name leaves a
\* failed set only in a recover_host step, which takes out that name alone, or
\* in a reset_failed_hosts step.
C1_FailedStaysUntilCleared ==
    [][\A d \in DOMAIN datas :
          /\ RunStep => datas[d].failed_hosts \subseteq datas'[d].failed_hosts
          /\ \A t \in datas[d].failed_hosts \ datas'[d].failed_hosts :
                \/ ret'.op = "recover_host"
                   /\ datas'[d].failed_hosts = datas[d].failed_hosts \ {t}
                \/ ret'.op = "reset_failed_hosts"
                   /\ datas'[d].failed_hosts = {}]_vars

\* a run has returned in which a failed host ran again and succeeded, and the
\* host is still in the failed set
C1_Witness ==
    /\ ret.op = "run"
    /\ ret.outcome = "returned"
    /\ \E i \in 1..Len(ret.result) :
          /\ ~ret.result[i].failed
          /\ ret.result[i].host \in datas[nornirs[ret.self].data].failed_hosts

-----------------------------------------------------------------------------
(* C2 *)

\* C2: when a run with raise-on-error off returns, the failed set is the
\* failed set before it united with the scheduled hosts whose work function
\* raised; and a run with on_good=True, on_failed=False schedules no host of
\* the failed set.
C2_FailedSetAfterRun ==
    [][/\ IsReturn /\ ~Raising =>
            datas'[nornirs[call.self].data].failed_hosts = CallFailed \cup Raised
       /\ IsCall /\ call'.on_good /\ ~call'.on_failed =>
            Range(call'.run_on) \cap datas[nornirs[call'.self].data].failed_hosts = {}]_vars

\* hosts A, B, C with B alone in the failed set, and the default run that
\* follows is under way on A and C
C2_Witness ==
    /\ call.pc = "exec"
    /\ call.on_good /\ ~call.on_failed
    /\ CallHosts = <<"A", "B", "C">>
    /\ CallFailed = {"B"}
    /\ call.run_on = <<"A", "C">>

-----------------------------------------------------------------------------
(* C3 *)

\* C3: the hosts scheduled by a run are the hosts of the session outside the
\* failed set if on_good, with those inside it if on_failed; none is scheduled
\* twice, none at all with both flags false; every scheduled host is executed
\* and the AggregatedResult holds one entry for each.
C3_ScheduledSet ==
    [][/\ IsCall =>
            LET hosts  == Range(inventories[nornirs[call'.self].inventory].hosts)
                failed == datas[nornirs[call'.self].data].failed_hosts
            IN  /\ Range(call'.run_on) =
                      (IF call'.on_good THEN hosts \ failed ELSE {})
                      \cup (IF call'.on_failed THEN hosts \cap failed ELSE {})
                /\ Distinct(call'.run_on)
                /\ ~call'.on_good /\ ~call'.on_failed => call'.run_on = <<>>
       /\ IsReturn =>
            /\ \A i \in 1..Len(call.units) :
                  call.units[i].host = call.run_on[i] /\ call.units[i].state \in Terminal
            /\ Len(call.units) = Len(call.run_on)
            /\ Len(ret'.result) = Len(call.run_on)
            /\ {ret'.result[i].host : i \in 1..Len(ret'.result)} = Range(call.run_on)
            /\ Distinct(AR_keys(ret'.result))]_vars

\* a run with both flags true on three hosts, one of them failed, has
\* executed all three
C3_Witness ==
    /\ call.pc = "exec"
    /\ call.on_good /\ call.on_failed
    /\ CallFailed \cap Range(CallHosts) # {}
    /\ Len(call.run_on) = 3
    /\ AllDone(call.units)

-----------------------------------------------------------------------------
(* C4 *)

\* C4 as claimed: the entries of the AggregatedResult are in the order of the
\* session's inventory restricted to the scheduled hosts.
C4_InventoryOrder ==
    [][IsReturn =>
          AR_keys(ret'.result) = SelectNames(CallHosts, Range(call.run_on))]_vars

\* C4 amended: the entries are the hosts outside the failed set in inventory
\* order (if on_good) followed by the hosts inside it in inventory order (if
\* on_failed), in serial and in parallel runs; with at most one flag true this
\* is the inventory order restricted to the scheduled hosts.
C4_GoodThenFailedOrder ==
    [][IsReturn =>
          /\ AR_keys(ret'.result) =
                (IF call.on_good THEN Good(CallHosts, CallFailed) ELSE <<>>)
                \o (IF call.on_failed THEN Bad(CallHosts, CallFailed) ELSE <<>>)
          /\ ~(call.on_good /\ call.on_failed) =>
                AR_keys(ret'.result) = SelectNames(CallHosts, Range(call.run_on))]_vars

\* a run with both flags true has returned B, C, A: A was in the failed set
C4_Witness ==
    /\ ret.op = "run"
    /\ AR_keys(ret.result) = <<"B", "C", "A">>

-----------------------------------------------------------------------------
(* C5 *)

\* C5: with raise-on-error in effect and a failing host, run raises, once
\* every unit is done, one error carrying a Result for every scheduled host;
\* with raise-on-error off, run returns, and the AggregatedResult returned
\* holds a failed Result when a host failed.
C5_RaiseOnError ==
    [][IsReturn =>
          /\ AllDone(call.units)
          /\ Raising /\ Raised # {} =>
                /\ ret'.outcome = "raised"
                /\ AR_keys(ret'.result) = call.run_on
          /\ Raising /\ Raised = {} => ret'.outcome = "returned"
          /\ ~Raising =>
                /\ ret'.outcome = "returned"
                /\ Raised # {} => \E i \in 1..Len(ret'.result) : ret'.result[i].failed]_vars

\* run has raised, and the error carries three Results, one of a host that
\* failed and one of a host that did not
C5_Witness ==
    /\ ret.op = "run"
    /\ ret.outcome = "raised"
    /\ Len(ret.result) = 3
    /\ \E i, j \in 1..Len(ret.result) : ret.result[i].failed /\ ~ret.result[j].failed

-----------------------------------------------------------------------------
(* C6 *)

\* C6: a session filtered from another, at any depth, holds the same Data
\* object as the session it was filtered from, so every session sees one
\* failed set, and a default run on any of them schedules no host of the
\* failed set any of them sees.
C6_SharedFailedSet ==
    \A s \in Sessions :
       /\ origin[s] # NoRef => nornirs[s].data = nornirs[origin[s]].data
       /\ \A t \in Sessions : FailedOf(Heap, s) = FailedOf(Heap, t)
       /\ call.pc = "exec" /\ call.on_good /\ ~call.on_failed =>
             Range(call.run_on) \cap FailedOf(Heap, s) = {}

\* a run on a session filtered from a filtered session has returned with
\* failed hosts, and the first session sees them in its failed set
C6_Witness ==
    /\ ret.op = "run"
    /\ origin[ret.self] # NoRef
    /\ origin[origin[ret.self]] # NoRef
    /\ \E i \in 1..Len(ret.result) : ret.result[i].failed
    /\ \A i \in 1..Len(ret.result) :
          ret.result[i].failed => ret.result[i].host \in FailedOf(Heap, 1)

-----------------------------------------------------------------------------
(* C7 *)

\* C7: a filter step leaves the session filtered as it was: its fields, its
\* Data object, and its Inventory object with the back-reference nornir,
\* which goes on referring to the session if it did.
C7_FilterLeavesParent ==
    [][Len(nornirs') = Len(nornirs) + 1 =>
          LET p == ret'.self
          IN  /\ nornirs'[p] = nornirs[p]
              /\ datas'[nornirs[p].data] = datas[nornirs[p].data]
              /\ inventories'[nornirs[p].inventory].hosts
                    = inventories[nornirs[p].inventory].hosts
              /\ inventories[nornirs[p].inventory].nornir = p =>
                    inventories'[nornirs'[p].inventory].nornir = p]_vars

-----------------------------------------------------------------------------
(* C8 *)

\* C8: no step changes the hosts of a session or their order, and the
\* hosts of a filtered session are hosts of the session it was filtered from.
C8_ParentHostsUnchanged ==
    [][/\ \A s \in Sessions :
             inventories'[nornirs'[s].inventory].hosts
                = inventories[nornirs[s].inventory].hosts
       /\ \A s \in 1..Len(nornirs') :
             origin'[s] # NoRef =>
                Range(inventories'[nornirs'[s].inventory].hosts)
                   \subseteq Range(inventories'[nornirs'[origin'[s]].inventory].hosts)]_vars

\* three sessions, a run has returned on a filtered one with fewer hosts, and
\* the first session still has A, B, C
C8_Witness ==
    /\ Len(nornirs) = 3
    /\ ret.op = "run"
    /\ ret.self > 1
    /\ Len(HostsOf(Heap, ret.self)) < 3
    /\ Len(ret.result) > 0
    /\ HostsOf(Heap, 1) = <<"A", "B", "C">>

-----------------------------------------------------------------------------
(* C9 *)

\* C9: in what run hands back, a Result is failed iff it holds an exception,
\* which is iff the work function raised on its host, and the exception is the
\* object raised; failed_hosts holds the failed entries and no other; and with
\* raise-on-error off the names added to the failed set are the hosts of the
\* failed Results.
C9_FailedIffException ==
    [][IsReturn =>
          LET res     == ret'.result
              failing == {i \in 1..Len(res) : res[i].failed}
          IN  /\ \A i \in 1..Len(res) :
                    /\ res[i].failed <=> res[i].exception # NoException
                    /\ res[i].failed <=> res[i].host \in call.task.raises
                    /\ res[i].failed => res[i].exception = [class |-> call.task.exc]
              /\ AR_failed(res) <=> failing # {}
              /\ Range(AR_failed_hosts(res)) = {res[i] : i \in failing}
              /\ ~Raising =>
                    datas'[nornirs[call.self].data].failed_hosts
                       = CallFailed \cup {res[i].host : i \in failing}]_vars

\* a run has returned both a failed Result holding a KeyError and a Result
\* that is not failed, and the failed host alone is in the failed set
C9_Witness ==
    /\ ret.op = "run"
    /\ ret.outcome = "returned"
    /\ \E i, j \in 1..Len(ret.result) :
          /\ ret.result[i].failed
          /\ ret.result[i].exception = [class |-> "KeyError"]
          /\ ~ret.result[j].failed
          /\ datas[nornirs[ret.self].data].failed_hosts = {ret.result[i].host}

-----------------------------------------------------------------------------
(* C10 *)

\* C10: whatever the mode and the number of workers, what a run hands back
\* is, as a mapping from host to Result, what run_serial makes of the same
\* task and hosts, and the failed set it leaves is the one that result gives.
C10_SerialParallelEqual ==
    [][IsReturn =>
          LET serial == run_serial(call.task, call.run_on)
          IN  /\ Range(ret'.result) = Range(serial)
              /\ Distinct(AR_keys(ret'.result))
              /\ datas'[nornirs[call.self].data].failed_hosts =
                    IF Raising THEN CallFailed
                    ELSE CallFailed \cup {r.host : r \in {x \in Range(serial) : x.failed}}]_vars

\* a parallel run of three units is done, the second unit having finished
\* before the first, with a failed Result and one that is not
C10_Witness ==
    /\ call.pc = "exec"
    /\ call.mode = "parallel"
    /\ AllDone(call.units)
    /\ Len(call.done) = 3
    /\ call.done[1] = 2
    /\ \E i, j \in 1..3 : call.units[i].state = "failed" /\ call.units[j].state = "succeeded"

-----------------------------------------------------------------------------
(* C11 *)

\* C11: a run goes the serial way iff its effective worker count is 1, the
\* effective worker count being the num_workers argument when one is given
\* (anything but None) and the configured default otherwise: a call of run
\* given num_workers hands that very number to the scheduler and is serial
\* iff the number is 1; a call given None hands over the configured default.
C11_SerialIffWorkersOne ==
    [][IsCall =>
          \A num_workers \in NumWorkersArgs :
             run(call'.self, call'.task, num_workers, call'.raise_on_error,
                 call'.on_good, call'.on_failed) =>
                LET given == num_workers # NoWorkers
                    eff   == IF given THEN num_workers
                             ELSE nornirs[call'.self].config.num_workers
                IN  /\ call'.num_workers = eff
                    /\ call'.mode = "serial" <=> eff = 1]_vars

-----------------------------------------------------------------------------
(* C15 *)

\* C15: recover_host(t) takes t and nothing else out of the failed set, and
\* changes nothing and raises nothing when t is not in it; reset_failed_hosts
\* empties the failed set; after either no session sees a cleared host as
\* failed, and a default run on any session schedules every host of the session
\* that is outside the failed set, the cleared ones included.
C15_ClearedHostsRunAgain ==
    [][/\ \A self \in Sessions, host \in Hosts :
             recover_host(self, host) =>
                LET d == nornirs[self].data
                IN  /\ datas'[d].failed_hosts = datas[d].failed_hosts \ {host}
                    /\ host \notin datas[d].failed_hosts => datas' = datas
                    /\ ret'.outcome = "returned"
                    /\ \A s \in Sessions : host \notin datas'[nornirs[s].data].failed_hosts
       /\ \A self \in Sessions :
             reset_failed_hosts(self) =>
                /\ datas'[nornirs[self].data].failed_hosts = {}
                /\ ret'.outcome = "returned"
                /\ \A s \in Sessions : datas'[nornirs[s].data].failed_hosts = {}
       /\ IsCall /\ call'.on_good /\ ~call'.on_failed =>
             \A h \in Range(inventories[nornirs[call'.self].inventory].hosts) :
                h \notin datas[nornirs[call'.self].data].failed_hosts
                   => h \in Range(call'.run_on)]_vars

\* A is in the failed set, which it entered together with C, and a default
\* run on a filtered session is under way on C: C was recovered on its own
C15_Witness ==
    /\ call.pc = "exec"
    /\ call.self > 1
    /\ call.on_good /\ ~call.on_failed
    /\ "A" \in CallFailed
    /\ "C" \in Range(call.run_on)

-----------------------------------------------------------------------------
(* C16 *)

\* C16: while a unit of a run is pending or running no step writes a failed
\* set; the one step of a run that writes it is the return, taken when every
\* unit is done; so at every step inside the run the hosts selected are still
\* the selection the failed set gives.
C16_FailedSetWrittenAfterJoin ==
    [][/\ call.pc = "exec" /\ ~AllDone(call.units) => datas' = datas
       /\ RunStep /\ datas' # datas => IsReturn /\ AllDone(call.units)
       /\ call.pc = "exec" =>
             Range(call.run_on) =
                (IF call.on_good THEN Range(CallHosts) \ CallFailed ELSE {})
                \cup (IF call.on_failed THEN Range(CallHosts) \cap CallFailed ELSE {})]_vars

\* a parallel run with raise-on-error off: one unit has failed, another is
\* running, and the failed host is not in the failed set yet
C16_Witness ==
    /\ call.pc = "exec"
    /\ call.mode = "parallel"
    /\ ~Raising
    /\ \E i, j \in 1..Len(call.units) :
          /\ call.units[i].state = "failed"
          /\ call.units[i].host \notin CallFailed
          /\ call.units[j].state = "running"

-----------------------------------------------------------------------------
(* C17 *)

\* C17: a run has one unit per scheduled host, each pending at first; a unit
\* goes from pending to running and from running to succeeded or failed, and
\* makes no other move; a unit that is succeeded or failed stays as it is; the
\* work function is executed once per unit (the run returns with every unit
\* done and each unit once in the list of completions); and whatever units
\* have failed, a run under way comes to the point where every unit is done.
C17_UnitLifecycle ==
    /\ [][/\ IsCall =>
                /\ Len(call'.units) = Len(call'.run_on)
                /\ \A i \in 1..Len(call'.units) :
                      /\ call'.units[i].host = call'.run_on[i]
                      /\ call'.units[i].state = "pending"
                /\ call'.done = <<>>
          /\ call.pc = "exec" /\ call'.pc = "exec" =>
                /\ Len(call'.units) = Len(call.units)
                /\ \A i \in 1..Len(call.units) :
                      LET s == call.units[i].state
                          t == call'.units[i].state
                      IN  /\ call'.units[i].host = call.units[i].host
                          /\ s # t => \/ s = "pending" /\ t = "running"
                                      \/ s = "running" /\ t \in Terminal
                          /\ s \in Terminal => call'.units[i] = call.units[i]
                /\ LET fin == {i \in Running(call.units) : call'.units[i].state \in Terminal}
                   IN  IF fin = {} THEN call'.done = call.done
                       ELSE \E i \in fin : fin = {i} /\ call'.done = Append(call.done, i)
          /\ IsReturn =>
                /\ AllDone(call.units)
                /\ Distinct(call.done)
                /\ Range(call.done) = 1..Len(call.units)]_vars
    /\ call.pc = "exec" ~> (call.pc = "exec" /\ AllDone(call.units))

\* every unit of a run is done, a unit that failed and a unit submitted after
\* it that succeeded among them
C17_Witness ==
    /\ call.pc = "exec"
    /\ AllDone(call.units)
    /\ \E i, j \in 1..Len(call.units) :
          /\ i < j
          /\ call.units[i].state = "failed"
          /\ call.units[j].state = "succeeded"

-----------------------------------------------------------------------------
(* C18 *)

\* C18 as claimed: when run raises, the failed set is what it was before the
\* call, and a default run that follows schedules every host that failed.
C18_RaisedRunScheduledAgain ==
    [][IsReturn /\ ret'.outcome = "raised" =>
          /\ datas' = datas
          /\ \A h \in Raised :
                h \in Range(RunOn(CallHosts, datas'[nornirs[call.self].data].failed_hosts,
                                  TRUE, FALSE))]_vars

\* C18 amended: run raises iff raise-on-error is in effect and a scheduled
\* host failed; when it raises, every failed set is what it was before the
\* call, and a default run that follows schedules the hosts that failed and
\* were outside the failed set before the call, and none of those that were
\* inside it.
C18_RaisedRunLeavesFailedSet ==
    [][IsReturn =>
          /\ ret'.outcome = "raised" <=> Raising /\ Raised # {}
          /\ ret'.outcome = "raised" =>
                /\ datas' = datas
                /\ \A h \in Raised :
                      h \in Range(RunOn(CallHosts,
                                        datas'[nornirs[call.self].data].failed_hosts,
                                        TRUE, FALSE))
                         <=> h \notin CallFailed]_vars

\* run has raised with two failed Results, one of a host that is in the
\* failed set and one of a host that is not
C18_Witness ==
    /\ ret.op = "run"
    /\ ret.outcome = "raised"
    /\ \E i, j \in 1..Len(ret.result) :
          /\ ret.result[i].failed
          /\ ret.result[i].host \in FailedOf(Heap, ret.self)
          /\ ret.result[j].failed
          /\ ret.result[j].host \notin FailedOf(Heap, ret.self)

-----------------------------------------------------------------------------
(* C19 *)

\* C19: a session filtered from another reports the dry_run of the session it
\* was filtered from, at the filter step and ever after; a filter step changes
\* the dry_run no session reports; a session constructed with dry_run = v on a
\* Data object at hand makes every session holding that Data object report v,
\* and leaves the dry_run of the sessions holding another Data object as it
\* was; no step that constructs no session changes a dry_run.
C19_DryRunShared ==
    [][/\ \A s \in Sessions :
             origin[s] # NoRef => Nornir_dry_run(Heap, s) = Nornir_dry_run(Heap, origin[s])
       /\ \A self \in Sessions, crit \in Criteria :
             filter(self, crit) =>
                /\ datas'[nornirs'[Len(nornirs')].data].dry_run = Nornir_dry_run(Heap, self)
                /\ \A s \in Sessions :
                      datas'[nornirs'[s].data].dry_run = Nornir_dry_run(Heap, s)
       /\ \A src \in Sessions, dry_run \in BOOLEAN, data \in DOMAIN datas :
             Nornir(src, dry_run, data) =>
                \A s \in 1..Len(nornirs') :
                   datas'[nornirs'[s].data].dry_run =
                      IF nornirs'[s].data = data THEN dry_run ELSE Nornir_dry_run(Heap, s)
       /\ Len(nornirs') = Len(nornirs) =>
             \A s \in Sessions : datas'[nornirs'[s].data].dry_run = Nornir_dry_run(Heap, s)]_vars

\* the first session, made with dry_run False, and the session filtered from
\* it report True: the third session was constructed on their Data with True
C19_Witness ==
    /\ ret.op = "Nornir"
    /\ ret.value = 3
    /\ origin[2] = 1
    /\ nornirs[3].data = nornirs[1].data
    /\ Nornir_dry_run(Heap, 1)
    /\ Nornir_dry_run(Heap, 2)

-----------------------------------------------------------------------------
(* C12, C13, C14: vocabulary *)

\* a run of close_connections_task is in progress
Closing == call.pc = "exec" /\ call.task = close_connections_task

\* the hosts the flags of the run in progress select
Selected ==
    (IF call.on_good THEN Range(CallHosts) \ CallFailed ELSE {})
    \cup (IF call.on_failed THEN Range(CallHosts) \cap CallFailed ELSE {})

-----------------------------------------------------------------------------
(* C12 *)

\* C12: __exit__, at the end of the block or on an exception, whatever the
\* failed set, starts close_connections_task on every host of the session,
\* good or failed; a block is left through __exit__ only; and when __exit__
\* returns the connections table of every host of the session is empty.
C12_ExitClosesAll ==
    [][/\ \A self \in Sessions, exc_type \in ExcTypes :
             Nornir_exit(self, exc_type) =>
                /\ call'.task = close_connections_task
                /\ Range(call'.run_on) = Range(HostsOf(Heap, self))
                /\ scope'.exc_type = exc_type
       /\ scope.pc = "in" /\ scope'.pc # "in" => scope'.pc = "exit" /\ IsCall
       /\ scope.pc = "exit" =>
             /\ Closing
             /\ call.self = scope.self
             /\ scope'.pc # "exit" => IsReturn /\ scope'.pc = "out"
             /\ IsReturn =>
                   \A h \in Range(HostsOf(Heap, scope.self)) :
                      connections'[h] = NoConnections]_vars

\* a block is being left by an exception; B is in the failed set and the run
\* of __exit__ has closed its connections; a host that is not in the failed
\* set still has two, its unit running
C12_Witness ==
    /\ scope.pc = "exit"
    /\ scope.exc_type # None
    /\ "B" \in CallFailed
    /\ \E i, j \in 1..Len(call.units) :
          /\ call.units[i].host = "B"
          /\ call.units[i].state = "succeeded"
          /\ call.units[j].state = "running"
          /\ call.units[j].host \notin CallFailed
          /\ Cardinality(connections[call.units[j].host]) = 2

-----------------------------------------------------------------------------
(* C13 *)

\* C13: a run of close_connections schedules the hosts its flags select and
\* no other; the unit of a host leaves the host's table empty and succeeds,
\* and changes no table when the host's table is empty already; no step of
\* the run changes the table of a host that is not selected; the run returns
\* without raising, with no failed Result, the failed sets as they were, and
\* the table of every selected host empty.
C13_CloseConnections ==
    [][Closing =>
          /\ Range(call.run_on) = Selected
          /\ \A h \in Hosts \ Selected : connections'[h] = connections[h]
          /\ \A i \in Running(call.units) :
                call'.pc = "exec" /\ call'.units[i].state \in Terminal =>
                   /\ call'.units[i].state = "succeeded"
                   /\ connections'[call.units[i].host] = NoConnections
                   /\ connections[call.units[i].host] = NoConnections
                         => connections' = connections
          /\ IsReturn =>
                /\ ret'.outcome = "returned"
                /\ \A i \in 1..Len(ret'.result) : ~ret'.result[i].failed
                /\ datas' = datas
                /\ \A h \in Selected : connections'[h] = NoConnections]_vars

\* close_connections() with its default flags under way: B is in the failed
\* set, is not scheduled, and has a connection; the host of a unit that is
\* done has none; the host of a pending unit has two
C13_Witness ==
    /\ Closing
    /\ call.on_good /\ ~call.on_failed
    /\ "B" \in CallFailed
    /\ "B" \notin Range(call.run_on)
    /\ connections["B"] # NoConnections
    /\ \E i, j \in 1..Len(call.units) :
          /\ call.units[i].state = "succeeded"
          /\ connections[call.units[i].host] = NoConnections
          /\ call.units[j].state = "pending"
          /\ Cardinality(connections[call.units[j].host]) = 2

-----------------------------------------------------------------------------
(* C14 *)

\* C14: a table holds one connection per name; a connection that is in a
\* table stays the same object until a unit of close_connections_task on its
\* host takes it out; and each request a work function makes for a name gets
\* the connection the table held under that name, nothing being opened, or,
\* when the table held none, a connection opened by that request.
C14_OpenedAtMostOnce ==
    [][/\ \A h \in Hosts :
             /\ \A c, d \in connections[h] : c.name = d.name => c = d
             /\ \A c \in connections[h] :
                   \/ c \in connections'[h]
                   \/ /\ Closing
                      /\ connections'[h] = NoConnections
                      /\ \E i \in Running(call.units) :
                            call.units[i].host = h /\ call'.units[i].state \in Terminal
       /\ call.pc = "exec" /\ call'.pc = "exec" =>
             \A i \in Running(call.units) :
                call'.units[i].state \in Terminal =>
                   LET h   == call.units[i].host
                       got == call'.units[i].got
                   IN  /\ Len(got) = Len(call.task.opens)
                       /\ \A k \in 1..Len(got) :
                             LET before == {c \in connections[h] : c.name = got[k].name}
                                 asked  == {got[j].name : j \in 1..(k - 1)}
                             IN  /\ got[k].name = call.task.opens[k]
                                 /\ got[k].opened <=>
                                       before = {} /\ got[k].name \notin asked
                                 /\ \A c \in before : got[k].handle = c.handle
                                 /\ \E c \in connections'[h] :
                                       c.name = got[k].name /\ c.handle = got[k].handle]_vars

\* a unit of a run on a filtered session is done: its request for the napalm
\* connection opened nothing and got the connection of the table, which holds
\* a netmiko connection opened before it
C14_Witness ==
    /\ call.pc = "exec"
    /\ call.self > 1
    /\ \E i \in 1..Len(call.units) :
          /\ call.units[i].state \in Terminal
          /\ Len(call.units[i].got) = 1
          /\ call.units[i].got[1].name = "napalm"
          /\ ~call.units[i].got[1].opened
          /\ call.units[i].got[1].handle = 2
          /\ \E c \in connections[call.units[i].host] : c.name = "netmiko" /\ c.handle = 1

=============================================================================
